---------------------------- MODULE Spec2Model ----------------------------
(***************************************************************************)
(* A model of the route-planning engine of Charting-Tools:                 *)
(* ChartedPaths (src/src/charted_paths.rs).                                *)
(*                                                                         *)
(* Conventions.                                                            *)
(*  - A coordinate ChartedCoordinate(r, c) is the pair <<r, c>>, 0-based   *)
(*    as in the code.  A Vec is a sequence, so the code's v[i] is the      *)
(*    model's v[i + 1].                                                    *)
(*  - Option<T> is a sequence of length at most one: None is <<>> and      *)
(*    Some(x) is <<x>>.                                                    *)
(*  - A petgraph NodeIndex / EdgeIndex n is modelled by n + 1: the place   *)
(*    of the node / edge in the graph's node / edge sequence.              *)
(*  - A call that panics is recorded as a result of kind "Panic".          *)
(***************************************************************************)
EXTENDS Integers, Sequences, FiniteSets, TLC

VARIABLES
    world,            \* the &World passed to init: the cost of stepping off each tile type under the current sky
    robot_map,        \* the grid snapshot handed to the latest init call
    graph,            \* ChartedPaths.graph
    indexes,          \* ChartedPaths.indexes
    teleports_edges,  \* ChartedPaths.teleports_edges (the keys; every value is true)
    builds,           \* how many init calls have returned on this instance
    call,             \* the latest call on the instance and what it returned
    number,           \* NUMBER of lib.rs: the counter of the tools handed out
    live,             \* how many instances of each kind of tool are alive
    charted_world,    \* a ChartedWorld: [map, len]
    charted_map,      \* a ChartedMap: ChartedMap.map, a function of the keys it holds
    saved,            \* the saves made on the ChartedMap and not removed since, in save order,
                      \* and the keys saved under: [entries, keys]
    charting_bot,     \* a ChartingBot: [coordinates]
    discoverable      \* how many tiles the world still lets the robot discover

vars == <<world, robot_map, graph, indexes, teleports_edges, builds, call, number, live,
          charted_world, charted_map, saved, charting_bot, discoverable>>

\* what belongs to the ChartedPaths instance and its caller
paths == <<world, robot_map, graph, indexes, teleports_edges, builds>>

\* what belongs to ChartingTools
tools == <<number, live>>

\* the other tools, and the discovery budget of the world
others == <<charted_world, charted_map, saved, charting_bot, discoverable>>

None == <<>>
Some(x) == <<x>>
IsSome(o) == Len(o) = 1
Unwrap(o) == o[1]

(***************************************************************************)
(* Bounds of the model.                                                    *)
(***************************************************************************)
MaxDim == 5
\* the most init calls made on one instance
MaxBuilds == 2
\* the largest row and column coordinates_to_direction is called with
MaxCoord == 2
\* the highest elevation of the tiles eval_weight is called on
MaxElevation == 3
\* the most tool instances alive at once
MaxLive == 5

(***************************************************************************)
(* Program constants.                                                      *)
(***************************************************************************)
TELEPORT_COST == 30
\* u32::MAX, eval_weight's sentinel.  TLC's integers are 32-bit signed, so the
\* sentinel is modelled by TLC's largest integer: it is above every weight a
\* world of the model can produce.
U32_MAX == 2147483647
\* the column and row of the node shortest_path_cost reads the distance of
READ_ROW == 0
READ_COL == 4
\* the dimension of the example map of test_correct_calls
EXAMPLE_DIM == 5
\* the most tools ChartingTools::tool hands out
LIMIT == 3

\* The kinds of tool that implement Drop and derive Clone.
ToolKinds == {"ChartedBot", "ChartedMap", "ChartedWorld"}

\* No tool is alive.
NoTools == [k \in ToolKinds |-> 0]

\* The other tools as their new() leaves them (charted_world.rs:35-37,
\* charted_map.rs:239-241, charting_bot.rs:30-34), in a world with nothing
\* left to discover.
Fresh ==
    /\ charted_world = [map |-> <<>>, len |-> 0]
    /\ charted_map = <<>>
    /\ saved = [entries |-> <<>>, keys |-> {}]
    /\ charting_bot = [coordinates |-> <<0, 0>>]
    /\ discoverable = 0

(***************************************************************************)
(* Tiles (robotics_lib).  A tile is [tile_type, elevation]; the content    *)
(* of a tile is never read by ChartedPaths.                                *)
(***************************************************************************)
Tile(t, e) == [tile_type |-> t, elevation |-> e]

TileTypes == {"Sand", "Hill", "DeepWater", "Teleport"}

\* tile_type.properties().walk()
Walk(t) == t # "DeepWater"

\* tile_type == TileType::Teleport(true)
IsTeleport(t) == t = "Teleport"

\* The worlds: tile_type.properties().cost() adjusted by
\* calculate_cost_go_with_environment under the sky of the world.
Worlds ==
    { [Sand |-> 1,  Hill |-> 1,  Teleport |-> 1, DeepWater |-> 0],
      [Sand |-> 40, Hill |-> 45, Teleport |-> 0, DeepWater |-> 0] }

\* calculate_cost_go_with_environment(tile_type.properties().cost(), look_at_sky(world), tile_type)
BaseCost(w, t) == w[t]

(***************************************************************************)
(* Coordinates.                                                            *)
(***************************************************************************)
\* ChartedCoordinate::distance_to
distance_to(who, to) == <<who[1] - to[1], who[2] - to[2]>>

\* ChartedCoordinate::is_close_to
is_close_to(who, to) ==
    distance_to(who, to)[1] * distance_to(who, to)[1]
      + distance_to(who, to)[2] * distance_to(who, to)[2] < 2

\* m[c.0][c.1] on a Vec<Vec<_>>
At(m, c) == m[c[1] + 1][c[2] + 1]

(***************************************************************************)
(* The grids init is called with.                                          *)
(*                                                                         *)
(* ExampleMap(n) is the robot_map that test_correct_calls builds, with the *)
(* dimension 5 of the test replaced by n: rows 2 and 4 are DeepWater at    *)
(* elevation 10, the others Sand at elevation 0, and set_tile_type!        *)
(* changes the type of the named cells that exist (it is a no-op on a cell *)
(* outside the map).  The full test map also sets (1,1) and (3,4).         *)
(***************************************************************************)
ExampleTile(i, j, full) ==
    LET base == IF i = 2 \/ i = 4 THEN Tile("DeepWater", 10) ELSE Tile("Sand", 0)
        t == IF <<i, j>> = <<0, 3>> THEN "DeepWater"
             ELSE IF <<i, j>> = <<0, 4>> THEN "Teleport"
             ELSE IF <<i, j>> = <<1, 2>> THEN "Teleport"
             ELSE IF full /\ <<i, j>> = <<1, 1>> THEN "DeepWater"
             ELSE IF full /\ <<i, j>> = <<3, 4>> THEN "Teleport"
             ELSE base.tile_type
    IN  Tile(t, base.elevation)

ExampleMap(n, full) ==
    [i \in 1..n |-> [j \in 1..n |-> Some(ExampleTile(i - 1, j - 1, full))]]

\* What a cell of the snapshot can be edited to: an undiscovered cell, or a
\* discovered tile.
EditTiles ==
    { None, Some(Tile("DeepWater", 0)), Some(Tile("Teleport", 0)),
      Some(Tile("Sand", 0)), Some(Tile("Hill", 1)) }

\* The cells the snapshots differ in.
EditCells == { <<0, 0>>, <<0, 1>>, <<0, 4>>, <<1, 2>>, <<1, 4>>, <<3, 4>> }

SetCell(m, c, t) ==
    IF c[1] < Len(m) /\ c[2] < Len(m)
    THEN [m EXCEPT ![c[1] + 1][c[2] + 1] = t]
    ELSE m

\* The snapshots of dimension n: the example map, and the example map with one
\* cell changed.
Grids(n) ==
    { ExampleMap(n, full) : full \in BOOLEAN }
    \cup { SetCell(ExampleMap(n, full), c, t) :
             full \in BOOLEAN, c \in EditCells, t \in EditTiles }


(***************************************************************************)
(* The Graph Builder: ChartedPaths::init and its helpers.                  *)
(***************************************************************************)
\* UnGraph::new_undirected(): nodes holds each node's weight (its coordinate),
\* edges holds [a, b, weight] for each edge, both in insertion order.
EmptyGraph == [nodes |-> <<>>, edges |-> <<>>]

\* ChartedPaths::adds_nodes, from cell k of the row-major scan on.  acc holds
\* the indexes table being extended, the row being filled, the graph's nodes
\* and the teleport worklist.
RECURSIVE adds_nodes_from(_, _, _, _)
adds_nodes_from(matrix, dim, k, acc) ==
    IF k = dim * dim THEN acc
    ELSE
      LET i == k \div dim
          j == k % dim
          cell == matrix[i + 1][j + 1]
          pushed ==
            IF cell = None \/ ~Walk(Unwrap(cell).tile_type)
            THEN [acc EXCEPT !.row = Append(@, None)]
            ELSE [acc EXCEPT
                    !.nodes = Append(@, <<i, j>>),
                    !.teleports = IF IsTeleport(Unwrap(cell).tile_type)
                                  THEN Append(@, <<i, j>>) ELSE @,
                    !.row = Append(@, Some(Len(acc.nodes) + 1))]
          closed ==
            IF j = dim - 1
            THEN [pushed EXCEPT !.indexes = Append(@, pushed.row), !.row = <<>>]
            ELSE pushed
      IN  adds_nodes_from(matrix, dim, k + 1, closed)

\* adds_nodes without the check of walk(): every discovered cell gets a node.
adds_nodes_seen(matrix, dim, old_indexes) ==
    adds_nodes_from(
        [i \in 1..dim |-> [j \in 1..dim |->
            IF matrix[i][j] = None THEN None
            ELSE Some(Tile(IF IsTeleport(Unwrap(matrix[i][j]).tile_type)
                           THEN "Teleport" ELSE "Sand",
                           Unwrap(matrix[i][j]).elevation))]],
        dim, 0,
        [indexes |-> old_indexes, row |-> <<>>, nodes |-> <<>>, teleports |-> <<>>])

\* ChartedPaths::adds_nodes: the rows are pushed onto the indexes the instance
\* already holds.
adds_nodes(matrix, dim, old_indexes) ==
    adds_nodes_from(matrix, dim, 0,
        [indexes |-> old_indexes, row |-> <<>>, nodes |-> <<>>, teleports |-> <<>>])

\* eval_weight taking the base cost of to's terrain instead of from's, for
\* the steps that do not go up
eval_weight_of_to(from, to, map, w, oc) ==
    IF is_close_to(from, to) /\ IsSome(At(map, from)) /\ IsSome(At(map, to))
    THEN IF Unwrap(At(map, from)).elevation < Unwrap(At(map, to)).elevation
         THEN [panic |-> TRUE, weight |-> 0]
         ELSE [panic |-> FALSE, weight |-> BaseCost(w, Unwrap(At(map, to)).tile_type)]
    ELSE [panic |-> FALSE, weight |-> U32_MAX]

\* ChartedPaths::eval_weight.  The result is [panic, weight].
\* With from lower than to the code subtracts to's elevation from from's on
\* usize: a panic with overflow checks; without them the difference wraps, and
\* "as i32" of the wrapped difference is the negative difference, whose square
\* is the penalty.
eval_weight(from, to, map, w, oc) ==
    IF is_close_to(from, to)
    THEN
      IF IsSome(At(map, from)) /\ IsSome(At(map, to))
      THEN
        LET tile_from == Unwrap(At(map, from))
            tile_to == Unwrap(At(map, to))
            base_cost == BaseCost(w, tile_from.tile_type)
        IN  IF tile_from.elevation < tile_to.elevation
            THEN IF oc
                 THEN [panic |-> TRUE, weight |-> 0]
                 ELSE [panic |-> FALSE,
                       weight |-> base_cost
                         + (tile_from.elevation - tile_to.elevation)
                           * (tile_from.elevation - tile_to.elevation)]
            ELSE [panic |-> FALSE, weight |-> base_cost]
      ELSE [panic |-> FALSE, weight |-> U32_MAX]
    ELSE [panic |-> FALSE, weight |-> U32_MAX]

\* check_neighbour adding the edge in both directions: two edges for one
\* adjacency
check_neighbour_twice(acc, idx, present, from, to, map, w, oc, node_count) ==
    IF acc.panic THEN acc
    ELSE IF to[2] >= Len(idx[to[1] + 1]) THEN [acc EXCEPT !.panic = TRUE]
    ELSE IF At(idx, to) = None THEN acc
    ELSE
      LET next_tile == Unwrap(At(idx, to))
          weight == eval_weight(from, to, map, w, oc)
      IN  IF weight.panic \/ present > node_count \/ next_tile > node_count
          THEN [acc EXCEPT !.panic = TRUE]
          ELSE [acc EXCEPT !.edges =
                  Append(Append(@, [a |-> present, b |-> next_tile, weight |-> weight.weight]),
                         [a |-> next_tile, b |-> present, weight |-> weight.weight])]

\* check_neighbour weighing the step from the neighbour to the present cell
check_neighbour_towards(acc, idx, present, from, to, map, w, oc, node_count) ==
    IF acc.panic THEN acc
    ELSE IF to[2] >= Len(idx[to[1] + 1]) THEN [acc EXCEPT !.panic = TRUE]
    ELSE IF At(idx, to) = None THEN acc
    ELSE
      LET next_tile == Unwrap(At(idx, to))
          weight == eval_weight(to, from, map, w, oc)
      IN  IF weight.panic \/ present > node_count \/ next_tile > node_count
          THEN [acc EXCEPT !.panic = TRUE]
          ELSE [acc EXCEPT !.edges =
                  Append(@, [a |-> present, b |-> next_tile, weight |-> weight.weight])]

\* One neighbour check of the adjacency scan ("CHECK RIGHT NODE", "CHECK NODE
\* BELOW"): the edges with the edge to the neighbour added, if it has a node.
\* acc is [panic, edges]; reading the table outside a row and add_edge on an
\* index that is no node of the graph panic.
check_neighbour(acc, idx, present, from, to, map, w, oc, node_count) ==
    IF acc.panic THEN acc
    ELSE IF to[2] >= Len(idx[to[1] + 1]) THEN [acc EXCEPT !.panic = TRUE]
    ELSE IF At(idx, to) = None THEN acc
    ELSE
      LET next_tile == Unwrap(At(idx, to))
          weight == eval_weight(from, to, map, w, oc)
      IN  IF weight.panic \/ present > node_count \/ next_tile > node_count
          THEN [acc EXCEPT !.panic = TRUE]
          ELSE [acc EXCEPT !.edges =
                  Append(@, [a |-> present, b |-> next_tile, weight |-> weight.weight])]

\* The adjacency scan of init ("Add vertices"), from cell k of the row-major
\* scan on.
RECURSIVE add_edges_from(_, _, _, _, _, _, _, _)
add_edges_from(idx, map, w, oc, dim, node_count, k, acc) ==
    IF acc.panic \/ k = dim * dim THEN acc
    ELSE
      LET i == k \div dim
          j == k % dim
      IN  IF j >= Len(idx[i + 1])
          THEN [acc EXCEPT !.panic = TRUE]
          ELSE IF idx[i + 1][j + 1] = None
          THEN add_edges_from(idx, map, w, oc, dim, node_count, k + 1, acc)
          ELSE
            LET present == Unwrap(idx[i + 1][j + 1])
                right == IF j # dim - 1
                         THEN check_neighbour(acc, idx, present, <<i, j>>, <<i, j + 1>>,
                                              map, w, oc, node_count)
                         ELSE acc
                below == IF i # dim - 1
                         THEN check_neighbour(right, idx, present, <<i, j>>, <<i + 1, j>>,
                                              map, w, oc, node_count)
                         ELSE right
            IN  add_edges_from(idx, map, w, oc, dim, node_count, k + 1, below)

\* teleport_pairs with the inner loop ending one place early
\* (index..teleports.len() - 2): the last teleport of the worklist gets no link.
RECURSIVE teleport_pairs_short(_, _, _)
teleport_pairs_short(len, index, i) ==
    IF index >= len THEN <<>>
    ELSE IF i >= len - 2 THEN teleport_pairs_short(len, index + 1, index + 1)
    ELSE <<<<index, i + 1>>>> \o teleport_pairs_short(len, index, i + 1)

\* The teleport mesh of init: the pairs (index, i + 1) of places in the
\* worklist, in the order the two loops visit them.
RECURSIVE teleport_pairs(_, _, _)
teleport_pairs(len, index, i) ==
    IF index >= len THEN <<>>
    ELSE IF i >= len - 1 THEN teleport_pairs(len, index + 1, index + 1)
    ELSE <<<<index, i + 1>>>> \o teleport_pairs(len, index, i + 1)

\* The teleport mesh of init over the pairs from place k on.  acc is
\* [panic, edges, teleports_edges].
RECURSIVE add_teleports_from(_, _, _, _, _, _)
add_teleports_from(idx, teleports, pairs, node_count, k, acc) ==
    IF acc.panic \/ k > Len(pairs) THEN acc
    ELSE
      LET current_teleport == teleports[pairs[k][1] + 1]
          next_teleport == teleports[pairs[k][2] + 1]
          a == At(idx, current_teleport)
          b == At(idx, next_teleport)
      IN  IF a = None \/ b = None
             \/ Unwrap(a) > node_count \/ Unwrap(b) > node_count
          THEN [acc EXCEPT !.panic = TRUE]
          ELSE add_teleports_from(idx, teleports, pairs, node_count, k + 1,
                 [acc EXCEPT
                    !.edges = Append(@, [a |-> Unwrap(a), b |-> Unwrap(b),
                                         weight |-> TELEPORT_COST]),
                    !.teleports_edges = @ \cup {Len(acc.edges) + 1}])

\* ChartedPaths::init on an instance holding old_indexes and old_teleports_edges:
\* [panic, graph, indexes, teleports_edges].
init(map, w, oc, old_indexes, old_teleports_edges) ==
    LET dimension == Len(map)
        added == adds_nodes(map, dimension, old_indexes)
        node_count == Len(added.nodes)
        scanned == add_edges_from(added.indexes, map, w, oc, dimension, node_count, 0,
                                  [panic |-> FALSE, edges |-> <<>>])
        meshed == add_teleports_from(added.indexes, added.teleports,
                     teleport_pairs(Len(added.teleports), 0, 0), node_count, 1,
                     [panic |-> scanned.panic, edges |-> scanned.edges,
                      teleports_edges |-> old_teleports_edges])
    IN  [panic |-> meshed.panic,
         graph |-> [nodes |-> added.nodes, edges |-> meshed.edges],
         indexes |-> added.indexes,
         teleports_edges |-> meshed.teleports_edges]


(***************************************************************************)
(* petgraph's searches, as ChartedPaths calls them.                        *)
(*                                                                         *)
(* Both keep a binary heap of scored nodes and pop a node of least score;  *)
(* which of several nodes of the same least score is popped first is left  *)
(* to the heap, so each search is modelled by the set of its outcomes over *)
(* every such order.                                                       *)
(***************************************************************************)
MinOf(S) == CHOOSE x \in S : \A y \in S : x <= y

\* graph.edges(n) of an undirected graph: the edges at n, either end.
EdgesAt(g, n) == { k \in 1..Len(g.edges) : g.edges[k].a = n \/ g.edges[k].b = n }

\* edge.target() of an edge met from n
Target(g, k, n) == IF g.edges[k].a = n THEN g.edges[k].b ELSE g.edges[k].a

\* The least score the edges at n give its neighbour t, n having score s.
ScoreVia(g, n, s, t) ==
    MinOf({ s + g.edges[k].weight : k \in { e \in EdgesAt(g, n) : Target(g, e, n) = t } })

\* One pop of dijkstra's loop from configuration c = [visited, scores]: the
\* configurations after it, over the nodes the heap may pop.  done marks the
\* configurations the loop ends in.
dijkstra_pop(g, goal, c) ==
    LET waiting == DOMAIN c.scores \ c.visited
    IN  IF waiting = {} THEN {[done |-> TRUE, visited |-> c.visited, scores |-> c.scores]}
        ELSE
          LET least == MinOf({ c.scores[n] : n \in waiting })
          IN  { IF goal = Some(node)
                THEN [done |-> TRUE, visited |-> c.visited, scores |-> c.scores]
                ELSE
                  LET node_score == c.scores[node]
                      reached == { Target(g, k, node) : k \in EdgesAt(g, node) } \ c.visited
                      scores ==
                        [ next \in DOMAIN c.scores \cup reached |->
                            IF next \notin reached THEN c.scores[next]
                            ELSE IF next \in DOMAIN c.scores
                                    /\ c.scores[next] <= ScoreVia(g, node, node_score, next)
                                 THEN c.scores[next]
                                 ELSE ScoreVia(g, node, node_score, next) ]
                  IN  [done |-> FALSE, visited |-> c.visited \cup {node}, scores |-> scores]
                : node \in { n \in waiting : c.scores[n] = least } }

\* dijkstra's loop from each of the configurations cs on: the score maps it
\* can return.
RECURSIVE dijkstra_loop(_, _, _)
dijkstra_loop(g, goal, cs) ==
    IF cs = {} THEN {}
    ELSE
      LET popped == UNION { dijkstra_pop(g, goal, c) : c \in cs }
      IN  { c.scores : c \in { p \in popped : p.done } }
          \cup dijkstra_loop(g, goal,
                 { [visited |-> p.visited, scores |-> p.scores] :
                     p \in { q \in popped : ~q.done } })

\* petgraph::algo::dijkstra(graph, start, goal, |e| *e.weight()): the score
\* maps it can return.
dijkstra(g, start, goal) ==
    dijkstra_loop(g, goal, {[visited |-> {}, scores |-> [n \in {start} |-> 0]]})

\* PathTracker::reconstruct_path_to: the path to last, start first.
RECURSIVE reconstruct_path_to(_, _)
reconstruct_path_to(came_from, last) ==
    IF last \in DOMAIN came_from
    THEN Append(reconstruct_path_to(came_from, came_from[last]), last)
    ELSE <<last>>

\* One pop of astar's loop from configuration c = [expanded, scores,
\* came_from], the estimate being 0 everywhere.
astar_pop(g, finish, c) ==
    LET waiting == DOMAIN c.scores \ c.expanded
    IN  IF waiting = {} THEN {[done |-> TRUE, found |-> None]}
        ELSE
          LET least == MinOf({ c.scores[n] : n \in waiting })
          IN  { IF node = finish
                THEN [done |-> TRUE,
                      found |-> Some([cost |-> c.scores[node],
                                      path |-> reconstruct_path_to(c.came_from, node)])]
                ELSE
                  LET node_score == c.scores[node]
                      improved ==
                        { next \in { Target(g, k, node) : k \in EdgesAt(g, node) } :
                            next \notin DOMAIN c.scores
                            \/ c.scores[next] > ScoreVia(g, node, node_score, next) }
                  IN  [done |-> FALSE,
                       expanded |-> c.expanded \cup {node},
                       scores |-> [ next \in DOMAIN c.scores \cup improved |->
                                      IF next \in improved
                                      THEN ScoreVia(g, node, node_score, next)
                                      ELSE c.scores[next] ],
                       came_from |-> [ next \in DOMAIN c.came_from \cup improved |->
                                         IF next \in improved THEN node
                                         ELSE c.came_from[next] ]]
                : node \in { n \in waiting : c.scores[n] = least } }

\* astar's loop from each of the configurations cs on: what it can return,
\* None or Some([cost, path]).
RECURSIVE astar_loop(_, _, _)
astar_loop(g, finish, cs) ==
    IF cs = {} THEN {}
    ELSE
      LET popped == UNION { astar_pop(g, finish, c) : c \in cs }
      IN  { p.found : p \in { q \in popped : q.done } }
          \cup astar_loop(g, finish,
                 { [expanded |-> p.expanded, scores |-> p.scores, came_from |-> p.came_from] :
                     p \in { q \in popped : ~q.done } })

\* petgraph::algo::astar(graph, start, |n| n == finish, |e| *e.weight(), |_| 0)
astar(g, start, finish) ==
    astar_loop(g, finish,
        {[expanded |-> {}, scores |-> [n \in {start} |-> 0], came_from |-> [n \in {} |-> 0]]})

(***************************************************************************)
(* Path Queries.  A query returns the set of results the call can have:    *)
(* [kind |-> "None"], [kind |-> "Some", ...] or [kind |-> "Panic"].        *)
(***************************************************************************)
ResNone == [kind |-> "None"]
ResPanic == [kind |-> "Panic"]
ResCost(x) == [kind |-> "Some", cost |-> x]
ResPath(x, p) == [kind |-> "Some", cost |-> x, path |-> p]

\* check_boundaries comparing with > where the code compares with >=
check_boundaries_off_by_one(idx, from, to) ==
    ~ (from[1] > Len(idx) \/ from[2] > Len(idx)
       \/ to[1] > Len(idx) \/ to[2] > Len(idx))

\* ChartedPaths::check_boundaries
check_boundaries(idx, from, to) ==
    ~ (from[1] >= Len(idx) \/ from[2] >= Len(idx)
       \/ to[1] >= Len(idx) \/ to[2] >= Len(idx))

\* self.indexes[c.0][c.1] is inside the table (the read does not panic)
InTable(idx, c) == c[1] < Len(idx) /\ c[2] < Len(idx[c[1] + 1])

\* self.indexes[c.0][c.1].unwrap() returns (it names a node)
HasNode(idx, c) == InTable(idx, c) /\ IsSome(At(idx, c))

\* index_to_coordinate returning (column, row) for a node found at (row, column)
index_to_coordinate_swapped(idx, node_index) ==
    LET hits == { <<i, j>> \in (0..(Len(idx) - 1)) \X (0..(Len(idx) - 1)) :
                    j < Len(idx[i + 1]) /\ idx[i + 1][j + 1] = Some(node_index) }
    IN  IF hits = {} THEN None
        ELSE LET c == CHOOSE c \in hits :
                        \A d \in hits : c[1] < d[1] \/ (c[1] = d[1] /\ c[2] <= d[2])
             IN  Some(<<c[2], c[1]>>)

\* ChartedPaths::index_to_coordinate: the first cell of the table, in row-major
\* order, that holds node_index.
index_to_coordinate(idx, node_index) ==
    LET hits == { <<i, j>> \in (0..(Len(idx) - 1)) \X (0..(Len(idx) - 1)) :
                    InTable(idx, <<i, j>>) /\ idx[i + 1][j + 1] = Some(node_index) }
    IN  IF hits = {} THEN None
        ELSE Some(CHOOSE c \in hits :
                    \A d \in hits : c[1] < d[1] \/ (c[1] = d[1] /\ c[2] <= d[2]))

\* The cell whose node's distance shortest_path_cost looks up in dijkstra's
\* result.
cost_cell(from, to) == <<READ_ROW, READ_COL>>

\* ChartedPaths::shortest_path_cost
shortest_path_cost(g, idx, from, to) ==
    IF ~check_boundaries(idx, from, to) THEN {ResNone}
    ELSE IF ~HasNode(idx, from) \/ ~InTable(idx, to) THEN {ResPanic}
    ELSE IF ~HasNode(idx, cost_cell(from, to)) THEN {ResPanic}
    ELSE
      { IF Unwrap(At(idx, cost_cell(from, to))) \in DOMAIN result
        THEN ResCost(result[Unwrap(At(idx, cost_cell(from, to)))])
        ELSE ResNone
        : result \in dijkstra(g, Unwrap(At(idx, from)), At(idx, to)) }

\* ChartedPaths::shortest_path_cost_a_star
shortest_path_cost_a_star(g, idx, from, to) ==
    IF ~check_boundaries(idx, from, to) THEN {ResNone}
    ELSE IF ~HasNode(idx, from) \/ ~HasNode(idx, to) THEN {ResPanic}
    ELSE
      { IF path_info = None THEN ResNone ELSE ResCost(Unwrap(path_info).cost)
        : path_info \in astar(g, Unwrap(At(idx, from)), Unwrap(At(idx, to))) }

\* The loop of shortest_path over the nodes of the path: the coordinates of
\* those index_to_coordinate finds.
RECURSIVE converted_path(_, _)
converted_path(idx, nodes) ==
    IF nodes = <<>> THEN <<>>
    ELSE index_to_coordinate(idx, Head(nodes)) \o converted_path(idx, Tail(nodes))

\* shortest_path returning the number of steps of the path as its cost
shortest_path_steps(g, idx, from, to) ==
    IF ~check_boundaries(idx, from, to) THEN {ResNone}
    ELSE IF ~HasNode(idx, from) \/ ~HasNode(idx, to) THEN {ResPanic}
    ELSE
      { IF path_info = None THEN ResNone
        ELSE ResPath(Len(Unwrap(path_info).path) - 1,
                     converted_path(idx, Unwrap(path_info).path))
        : path_info \in astar(g, Unwrap(At(idx, from)), Unwrap(At(idx, to))) }

\* ChartedPaths::shortest_path
shortest_path(g, idx, from, to) ==
    IF ~check_boundaries(idx, from, to) THEN {ResNone}
    ELSE IF ~HasNode(idx, from) \/ ~HasNode(idx, to) THEN {ResPanic}
    ELSE
      { IF path_info = None THEN ResNone
        ELSE ResPath(Unwrap(path_info).cost, converted_path(idx, Unwrap(path_info).path))
        : path_info \in astar(g, Unwrap(At(idx, from)), Unwrap(At(idx, to))) }


(***************************************************************************)
(* The state machine: one ChartedPaths instance and the calls made on it.  *)
(***************************************************************************)
Call(op, from, to, result) == [op |-> op, from |-> from, to |-> to, result |-> result]

\* The coordinates the queries are made with: the cells the snapshots differ
\* in, two more cells, and two coordinates outside every grid of the model.
QueryCells == EditCells \cup { <<1, 1>>, <<3, 0>> } \cup { <<MaxDim, 0>>, <<0, MaxDim>> }

\* ChartingTool::new() for ChartedPaths, in some world.
Init ==
    /\ world \in Worlds
    /\ robot_map = <<>>
    /\ graph = EmptyGraph
    /\ indexes = <<>>
    /\ teleports_edges = {}
    /\ builds = 0
    /\ call = Call("new", <<0, 0>>, <<0, 0>>, ResNone)
    /\ number = 0
    /\ live = NoTools
    /\ Fresh

\* A panic unwinds through the caller: no call follows it.
Alive == call.result.kind # "Panic"

QueryOps == {"shortest_path_cost", "shortest_path_cost_a_star", "shortest_path"}

\* The caller holds no result of a query.
Ready == Alive /\ call.op \notin QueryOps

\* charted_paths.init(&map, world), in a build with overflow checks (oc, the
\* debug profile) or without (the release profile).
Build(map, oc) ==
    LET built == init(map, world, oc, indexes, teleports_edges)
    IN  /\ Alive
        /\ robot_map' = map
        /\ IF built.panic
           THEN /\ call' = Call("init", <<0, 0>>, <<0, 0>>, ResPanic)
                /\ UNCHANGED <<graph, indexes, teleports_edges, builds>>
           ELSE /\ call' = Call("init", <<0, 0>>, <<0, 0>>, ResNone)
                /\ graph' = built.graph
                /\ indexes' = built.indexes
                /\ teleports_edges' = built.teleports_edges
                /\ builds' = builds + 1
        /\ UNCHANGED world
        /\ UNCHANGED tools
        /\ UNCHANGED others

\* The documented use: the instance is initialised once, in the tick that
\* made it.
InitOnce ==
    /\ builds = 0
    /\ Ready
    /\ \E n \in 0..MaxDim : \E map \in Grids(n) : \E oc \in BOOLEAN : Build(map, oc)

\* charted_paths.shortest_path_cost(from, to)
ShortestPathCost ==
    /\ Ready
    /\ \E from \in QueryCells, to \in QueryCells :
         \E r \in shortest_path_cost(graph, indexes, from, to) :
            call' = Call("shortest_path_cost", from, to, r)
    /\ UNCHANGED <<world, robot_map, graph, indexes, teleports_edges, builds>>
    /\ UNCHANGED tools
    /\ UNCHANGED others

\* charted_paths.shortest_path_cost_a_star(from, to)
ShortestPathCostAStar ==
    /\ Ready
    /\ \E from \in QueryCells, to \in QueryCells :
         \E r \in shortest_path_cost_a_star(graph, indexes, from, to) :
            call' = Call("shortest_path_cost_a_star", from, to, r)
    /\ UNCHANGED <<world, robot_map, graph, indexes, teleports_edges, builds>>
    /\ UNCHANGED tools
    /\ UNCHANGED others

\* charted_paths.shortest_path(from, to)
ShortestPath ==
    /\ Ready
    /\ \E from \in QueryCells, to \in QueryCells :
         \E r \in shortest_path(graph, indexes, from, to) :
            call' = Call("shortest_path", from, to, r)
    /\ UNCHANGED <<world, robot_map, graph, indexes, teleports_edges, builds>>
    /\ UNCHANGED tools
    /\ UNCHANGED others

\* The caller takes the result of a query: the instance is ready for the
\* next call.  The queries take &self, so nothing of the instance changes.
TakeResult ==
    /\ Alive
    /\ call.op \in QueryOps
    /\ call' = Call(IF builds = 0 THEN "new" ELSE "init", <<0, 0>>, <<0, 0>>, ResNone)
    /\ UNCHANGED <<world, robot_map, graph, indexes, teleports_edges, builds>>
    /\ UNCHANGED tools
    /\ UNCHANGED others

Next ==
    \/ InitOnce
    \/ ShortestPathCost
    \/ ShortestPathCostAStar
    \/ ShortestPath
    \/ TakeResult

Spec == Init /\ [][Next]_vars

(***************************************************************************)
(* The same instance initialised more than once: init is public and takes  *)
(* &mut self, and it starts by replacing self.graph.                       *)
(***************************************************************************)
\* The dimensions of the snapshots of the repeated init.
RebuildDims == {2, 3, MaxDim}

\* The cells the snapshots of the repeated init differ in.
RebuildCells == { <<0, 0>>, <<0, 1>> }

\* The snapshots of dimension n of the repeated init: the example map, the
\* example map with one cell undiscovered or unwalkable, and the example map
\* with Sand in the place of the teleport (1,2).
RebuildGrids(n) ==
    { ExampleMap(n, FALSE) }
    \cup { SetCell(ExampleMap(n, FALSE), c, t) :
             c \in RebuildCells, t \in { None, Some(Tile("DeepWater", 0)) } }
    \cup { SetCell(ExampleMap(n, FALSE), <<1, 2>>, Some(Tile("Sand", 0))) }

\* charted_paths.init(&map, world) on an instance that may have been
\* initialised before.
InitAgain ==
    /\ builds < MaxBuilds
    /\ Ready
    /\ \E n \in RebuildDims : \E map \in RebuildGrids(n) : \E oc \in BOOLEAN : Build(map, oc)

\* The queries take &self and leave the instance as it is: what they return
\* after a repeated init is stated on the instance the init leaves.
NextRebuild == InitAgain

SpecRebuild == Init /\ [][NextRebuild]_vars

(***************************************************************************)
(* ChartedPaths::coordinates_to_direction, an associated function: it      *)
(* reads nothing of the instance.                                          *)
(***************************************************************************)
ResOk(d) == [kind |-> "Ok", dir |-> d]
ResErr == [kind |-> "Err"]

\* coordinates_to_direction with Up and Down exchanged
coordinates_to_direction_flipped(from, to) ==
    IF from[2] > to[2] THEN ResOk("Left")
    ELSE IF from[2] < to[2] THEN ResOk("Right")
    ELSE IF from[1] > to[1] THEN ResOk("Down")
    ELSE IF from[1] < to[1] THEN ResOk("Up")
    ELSE ResErr

\* coordinates_to_direction comparing the rows where the code compares the
\* columns, and the columns where it compares the rows
coordinates_to_direction_transposed(from, to) ==
    IF from[1] > to[1] THEN ResOk("Left")
    ELSE IF from[1] < to[1] THEN ResOk("Right")
    ELSE IF from[2] > to[2] THEN ResOk("Up")
    ELSE IF from[2] < to[2] THEN ResOk("Down")
    ELSE ResErr

\* ChartedPaths::coordinates_to_direction
coordinates_to_direction(from, to) ==
    IF from[2] > to[2] THEN ResOk("Left")
    ELSE IF from[2] < to[2] THEN ResOk("Right")
    ELSE IF from[1] > to[1] THEN ResOk("Up")
    ELSE IF from[1] < to[1] THEN ResOk("Down")
    ELSE ResErr

\* ChartedBot::move_bot: the coordinate one step in the direction.
move_bot(coordinates, direction) ==
    IF direction = "Up" THEN <<coordinates[1] - 1, coordinates[2]>>
    ELSE IF direction = "Down" THEN <<coordinates[1] + 1, coordinates[2]>>
    ELSE IF direction = "Left" THEN <<coordinates[1], coordinates[2] - 1>>
    ELSE <<coordinates[1], coordinates[2] + 1>>

\* The coordinates the function is called with.
DirectionCells == (0..MaxCoord) \X (0..MaxCoord)

\* ChartedPaths::coordinates_to_direction(from, to)
CoordinatesToDirection ==
    /\ Ready
    /\ \E from \in DirectionCells, to \in DirectionCells :
         call' = Call("coordinates_to_direction", from, to, coordinates_to_direction(from, to))
    /\ UNCHANGED paths
    /\ UNCHANGED tools
    /\ UNCHANGED others

NextDirection == CoordinatesToDirection

SpecDirection == Init /\ [][NextDirection]_vars

(***************************************************************************)
(* ChartedPaths::eval_weight, an associated function, on its own: over     *)
(* small maps and every pair of their cells.                               *)
(***************************************************************************)
\* What a cell of these maps holds.
WeightTiles ==
    { None, Some(Tile("Sand", 0)), Some(Tile("Hill", 1)), Some(Tile("Hill", MaxElevation)) }

\* The maps: two rows of two cells.
WeightMaps == [1..2 -> [1..2 -> WeightTiles]]

\* The instance is not involved: a map and a world are at hand.
InitWeight ==
    /\ world \in Worlds
    /\ robot_map \in WeightMaps
    /\ graph = EmptyGraph
    /\ indexes = <<>>
    /\ teleports_edges = {}
    /\ builds = 0
    /\ call = Call("new", <<0, 0>>, <<0, 0>>, ResNone)
    /\ number = 0
    /\ live = NoTools
    /\ Fresh

\* ChartedPaths::eval_weight(&from, &to, &map, &world), in a build with
\* overflow checks or without.
EvalWeight ==
    /\ Ready
    /\ \E from \in (0..1) \X (0..1), to \in (0..1) \X (0..1), oc \in BOOLEAN :
         LET r == eval_weight(from, to, robot_map, world, oc)
         IN  call' = Call("eval_weight", from, to,
                          IF r.panic THEN ResPanic ELSE ResCost(r.weight))
    /\ UNCHANGED paths
    /\ UNCHANGED tools
    /\ UNCHANGED others

NextWeight == EvalWeight

SpecWeight == InitWeight /\ [][NextWeight]_vars

(***************************************************************************)
(* ChartingTools (lib.rs): the counter NUMBER behind ChartingTools::tool,  *)
(* and the tools' Clone and Drop.  NUMBER's lock is held only over code    *)
(* that cannot panic, so the lock is never poisoned and NUMBER.lock() is   *)
(* always Ok.                                                              *)
(***************************************************************************)
ToolOk(k) == [kind |-> "Ok", tool |-> k]
ToolErr(n) == [kind |-> "Err", count |-> n]

RECURSIVE SumOver(_, _)
SumOver(f, S) ==
    IF S = {} THEN 0
    ELSE LET k == CHOOSE x \in S : TRUE IN f[k] + SumOver(f, S \ {k})

\* How many tool instances are alive.
TotalLive == SumOver(live, ToolKinds)

\* ChartingTools::tool::<T>()
Tool ==
    /\ Alive
    /\ TotalLive < MaxLive
    /\ \E k \in ToolKinds :
         IF number < LIMIT
         THEN /\ number' = number + 1
              /\ live' = [live EXCEPT ![k] = @ + 1]
              /\ call' = Call("tool", <<0, 0>>, <<0, 0>>, ToolOk(k))
         ELSE /\ call' = Call("tool", <<0, 0>>, <<0, 0>>, ToolErr(number))
              /\ UNCHANGED tools
    /\ UNCHANGED paths
    /\ UNCHANGED others

\* tool.clone() of the derived Clone: a second instance, NUMBER untouched.
CloneTool ==
    /\ Alive
    /\ TotalLive < MaxLive
    /\ \E k \in ToolKinds :
         /\ live[k] > 0
         /\ live' = [live EXCEPT ![k] = @ + 1]
         /\ call' = Call("clone", <<0, 0>>, <<0, 0>>, ToolOk(k))
    /\ UNCHANGED number
    /\ UNCHANGED paths
    /\ UNCHANGED others

\* Drop::drop of a tool
DropTool ==
    /\ Alive
    /\ \E k \in ToolKinds :
         /\ live[k] > 0
         /\ live' = [live EXCEPT ![k] = @ - 1]
         /\ call' = Call("drop", <<0, 0>>, <<0, 0>>, ToolOk(k))
    /\ number' = IF number > 0 THEN number - 1 ELSE number
    /\ UNCHANGED paths
    /\ UNCHANGED others

NextTools ==
    \/ Tool
    \/ CloneTool
    \/ DropTool

SpecTools == Init /\ [][NextTools]_vars


(***************************************************************************)
(* What the claims speak of, stated on the graph itself and independently  *)
(* of the searches.                                                        *)
(***************************************************************************)
NodeIds(g) == 1..Len(g.nodes)

\* A distance not yet known, or no distance at all.
Unreached == 0 - 1

\* One round of relaxation over the edges among `allowed`: every node takes
\* the least of its distance and what a neighbour's distance and the edge
\* between them give.
RelaxAll(g, allowed, d) ==
    [ n \in DOMAIN d |->
        LET via == { d[Target(g, k, n)] + g.edges[k].weight :
                       k \in { e \in allowed :
                                 (g.edges[e].a = n \/ g.edges[e].b = n)
                                 /\ d[Target(g, e, n)] # Unreached } }
        IN  IF via = {} THEN d[n]
            ELSE IF d[n] = Unreached THEN MinOf(via)
            ELSE MinOf(via \cup {d[n]}) ]

RECURSIVE Settle(_, _, _)
Settle(g, allowed, d) ==
    IF RelaxAll(g, allowed, d) = d THEN d ELSE Settle(g, allowed, RelaxAll(g, allowed, d))

\* The least total weight of a path from node a to node b that uses only the
\* edges among `allowed`; Unreached when there is none.
LeastWeight(g, allowed, a, b) ==
    Settle(g, allowed, [n \in NodeIds(g) |-> IF n = a THEN 0 ELSE Unreached])[b]

\* The minimum total edge weight over all paths of the graph between a and b.
MinCost(g, a, b) == LeastWeight(g, 1..Len(g.edges), a, b)

\* The same over the adjacency edges alone: the walking cost.
WalkCost(g, te, a, b) == LeastWeight(g, (1..Len(g.edges)) \ te, a, b)

\* The node of a coordinate that has one.
NodeOf(idx, c) == Unwrap(At(idx, c))

\* The edges joining nodes a and b.
EdgesBetween(g, a, b) ==
    { k \in 1..Len(g.edges) :
        (g.edges[k].a = a /\ g.edges[k].b = b) \/ (g.edges[k].a = b /\ g.edges[k].b = a) }

\* Every consecutive pair of the coordinate list has nodes joined by an edge.
Contiguous(g, idx, path) ==
    \A k \in 1..(Len(path) - 1) :
        /\ HasNode(idx, path[k]) /\ HasNode(idx, path[k + 1])
        /\ EdgesBetween(g, NodeOf(idx, path[k]), NodeOf(idx, path[k + 1])) # {}

\* The sum of the weights of the edges along a contiguous coordinate list,
\* the cheapest edge counting where two nodes are joined by more than one.
RECURSIVE PathWeight(_, _, _)
PathWeight(g, idx, path) ==
    IF Len(path) <= 1 THEN 0
    ELSE MinOf({ g.edges[k].weight :
                   k \in EdgesBetween(g, NodeOf(idx, path[1]), NodeOf(idx, path[2])) })
         + PathWeight(g, idx, Tail(path))

\* The dimension N of the grid the instance was built from; 0 when it never was.
Dim == Len(robot_map)

InRange(c) == c[1] < Dim /\ c[2] < Dim

\* c is a discovered teleport of the grid
TeleportAt(c) ==
    InRange(c) /\ IsSome(At(robot_map, c)) /\ IsTeleport(Unwrap(At(robot_map, c)).tile_type)

\* from and to of the latest call both have graph nodes
BothNodes == HasNode(indexes, call.from) /\ HasNode(indexes, call.to)

\* ... and a path of the graph joins them
Connected ==
    BothNodes
    /\ MinCost(graph, NodeOf(indexes, call.from), NodeOf(indexes, call.to)) # Unreached

(***************************************************************************)
(* The claims.                                                             *)
(***************************************************************************)

\* C1: after init, for every pair of in-range coordinates from and to that
\* both have graph nodes and are connected, shortest_path_cost(from, to)
\* returns Some(d), d the minimum total edge weight over all paths between
\* from's node and to's node.
C1_CostIsMinimum ==
    (call.op = "shortest_path_cost" /\ builds >= 1 /\ Connected)
    => call.result = ResCost(MinCost(graph, NodeOf(indexes, call.from),
                                     NodeOf(indexes, call.to)))

\* C2: for every pair of connected node coordinates from and to,
\* shortest_path(from, to) returns a cost that is the minimum total edge
\* weight of any path of the built graph between them, and that equals the
\* sum of the weights of the edges along the returned coordinate list.
C2_PathCostIsMinimum ==
    (call.op = "shortest_path" /\ BothNodes)
    => LET least == MinCost(graph, NodeOf(indexes, call.from), NodeOf(indexes, call.to))
       IN  least # Unreached
           => /\ call.result.kind = "Some"
              /\ call.result.cost = least
              /\ Contiguous(graph, indexes, call.result.path)
              /\ call.result.cost = PathWeight(graph, indexes, call.result.path)

\* C2's case: shortest_path returned a route of several steps, one of them a
\* teleport link.
C2_Witness ==
    /\ call.op = "shortest_path" /\ Connected
    /\ call.result.kind = "Some"
    /\ Len(call.result.path) >= 4
    /\ call.result.cost > TELEPORT_COST
    /\ \E k \in 1..(Len(call.result.path) - 1) :
          ~is_close_to(call.result.path[k], call.result.path[k + 1])

\* C3: whenever shortest_path(from, to) returns Some((cost, list)), the list
\* is non-empty, starts at from, ends at to, and every consecutive pair of
\* its coordinates is joined by an edge of the graph.
C3_PathIsContiguous ==
    (call.op = "shortest_path" /\ call.result.kind = "Some")
    => /\ Len(call.result.path) >= 1
       /\ call.result.path[1] = call.from
       /\ call.result.path[Len(call.result.path)] = call.to
       /\ Contiguous(graph, indexes, call.result.path)
       /\ \A k \in 1..(Len(call.result.path) - 1) :
             \/ is_close_to(call.result.path[k], call.result.path[k + 1])
             \/ TeleportAt(call.result.path[k]) /\ TeleportAt(call.result.path[k + 1])

\* C3's case: shortest_path returned a list of several coordinates, with a
\* step to a four-directional neighbour and a step through a teleport link.
C3_Witness ==
    /\ call.op = "shortest_path" /\ call.result.kind = "Some"
    /\ Len(call.result.path) >= 3
    /\ \E k \in 1..(Len(call.result.path) - 1) :
          is_close_to(call.result.path[k], call.result.path[k + 1])
    /\ \E k \in 1..(Len(call.result.path) - 1) :
          ~is_close_to(call.result.path[k], call.result.path[k + 1])

\* The cost of a result, None when it has none.
CostOf(r) == IF r.kind = "Some" THEN Some(r.cost) ELSE None

\* C4: the three query entry points agree: on the same from and to,
\* shortest_path_cost, shortest_path_cost_a_star and the cost of
\* shortest_path are all absent, or all present with the same value.
C4_EntryPointsAgree ==
    (call.op \in QueryOps)
    => /\ call.result.kind # "Panic"
       /\ \A r \in shortest_path_cost(graph, indexes, call.from, call.to)
                   \cup shortest_path_cost_a_star(graph, indexes, call.from, call.to)
                   \cup shortest_path(graph, indexes, call.from, call.to) :
             r.kind # "Panic" /\ CostOf(r) = CostOf(call.result)

\* C5: for every discovered, walkable coordinate a of a grid,
\* shortest_path_cost(a, a) returns Some(0).
C5_CostToSelfIsZero ==
    (call.op = "shortest_path_cost" /\ call.from = call.to
       /\ InRange(call.from) /\ IsSome(At(robot_map, call.from))
       /\ Walk(Unwrap(At(robot_map, call.from)).tile_type))
    => call.result = ResCost(0)

\* C6: for a ChartedPaths built from an N x N grid (N = 0 for an instance
\* never initialised), if from or to has a row or column index >= N, then
\* shortest_path_cost, shortest_path_cost_a_star and shortest_path all return
\* None, without failing.
C6_OutOfRangeIsNone ==
    (call.op \in QueryOps /\ (~InRange(call.from) \/ ~InRange(call.to)))
    => call.result = ResNone

\* C6's case: on a built instance, a query from a coordinate that has a node
\* to a coordinate outside the grid has returned.
C6_Witness ==
    /\ call.op \in QueryOps
    /\ builds = 1
    /\ HasNode(indexes, call.from)
    /\ ~InRange(call.to)
    /\ call.result = ResNone

\* C7: for every in-range coordinate that has no graph node, used as from or
\* as to, each of the three queries returns None as a normal value; no query
\* panics on an in-range input.
C7_NoNodeIsNone ==
    (call.op \in QueryOps /\ InRange(call.from) /\ InRange(call.to))
    => /\ call.result.kind # "Panic"
       /\ (~BothNodes => call.result = ResNone)

\* C8: for every pair of coordinates that both have graph nodes but lie in
\* different connected components of the built graph, the three queries all
\* return None.
C8_DisconnectedIsNone ==
    (call.op \in QueryOps /\ BothNodes)
    => (MinCost(graph, NodeOf(indexes, call.from), NodeOf(indexes, call.to)) = Unreached
        => call.result = ResNone)

\* C9: for any two distinct discovered teleports t1 and t2 that no walk
\* joins, shortest_path_cost(t1, t2) returns Some(30).
C9_TeleportClique ==
    (call.op = "shortest_path_cost" /\ call.from # call.to
       /\ TeleportAt(call.from) /\ TeleportAt(call.to))
    => (WalkCost(graph, teleports_edges, NodeOf(indexes, call.from),
                 NodeOf(indexes, call.to)) = Unreached
        => call.result = ResCost(TELEPORT_COST))

\* The 5x5 example grid of the specification: rows 2 and 4 impassable, (0,3)
\* impassable, (0,4) and (1,2) teleports, every other cell walkable at
\* elevation 0.
ExampleGrid == ExampleMap(EXAMPLE_DIM, FALSE)

\* C10: on the example grid, shortest_path_cost((0,0), (0,4)) is present and
\* equals the lower of the route through the teleport link (30 plus the walk
\* to the teleport (1,2)) and the walking cost.
C10_ExampleCost ==
    (robot_map = ExampleGrid /\ builds = 1
       /\ call.op = "shortest_path_cost" /\ call.from = <<0, 0>> /\ call.to = <<0, 4>>)
    => LET through == TELEPORT_COST
                        + WalkCost(graph, teleports_edges, NodeOf(indexes, <<0, 0>>),
                                   NodeOf(indexes, <<1, 2>>))
           walking == WalkCost(graph, teleports_edges, NodeOf(indexes, <<0, 0>>),
                               NodeOf(indexes, <<0, 4>>))
       IN  call.result = ResCost(IF through < walking THEN through ELSE walking)

\* C10's case: the query was made on the example grid in the world of uniform
\* cost 1, and returned the 6 of the walk around the impassable (0,3).
C10_Witness ==
    /\ robot_map = ExampleGrid /\ builds = 1
    /\ world.Sand = 1 /\ world.Teleport = 1
    /\ call.op = "shortest_path_cost" /\ call.from = <<0, 0>> /\ call.to = <<0, 4>>
    /\ call.result = ResCost(6)

\* The coordinates of the grid of the latest init.
GridCells == (0..(Dim - 1)) \X (0..(Dim - 1))

\* The cell of the grid at c is discovered and walkable.
Walkable(c) == IsSome(At(robot_map, c)) /\ Walk(Unwrap(At(robot_map, c)).tile_type)

\* C11: after init on a grid, for every coordinate (i, j) of the grid,
\* indexes[i][j] is Some(n) if and only if the cell is discovered and walkable,
\* and then n is a node of the graph whose stored coordinate is (i, j);
\* distinct coordinates map to distinct nodes, and every node of the graph is
\* the image of exactly one coordinate.
C11_IndexesMatchNodes ==
    builds = 1
    => /\ \A c \in GridCells :
             /\ InTable(indexes, c)
             /\ IsSome(At(indexes, c)) <=> Walkable(c)
             /\ IsSome(At(indexes, c))
                  => /\ NodeOf(indexes, c) \in NodeIds(graph)
                     /\ graph.nodes[NodeOf(indexes, c)] = c
       /\ \A c \in GridCells, d \in GridCells :
             (c # d /\ IsSome(At(indexes, c)) /\ IsSome(At(indexes, d)))
             => NodeOf(indexes, c) # NodeOf(indexes, d)
       /\ \A n \in NodeIds(graph) :
             Cardinality({ c \in GridCells : At(indexes, c) = Some(n) }) = 1

\* C11's case: init returned on the example grid with (0,1) undiscovered: the
\* grid has undiscovered, unwalkable and walkable cells, and (0,2) is the
\* second node.
C11_Witness ==
    /\ builds = 1
    /\ robot_map = SetCell(ExampleGrid, <<0, 1>>, None)
    /\ At(indexes, <<0, 1>>) = None
    /\ At(indexes, <<0, 3>>) = None
    /\ At(indexes, <<0, 2>>) = Some(2)
    /\ graph.nodes[2] = <<0, 2>>

\* What a result says of the cost: the result without its path.
CostResult(r) == IF r.kind = "Some" THEN ResCost(r.cost) ELSE r

\* C12: building the graph a second time from the same grid snapshot and
\* environment, on the same instance, yields for every pair of coordinates the
\* same shortest_path_cost, shortest_path_cost_a_star and shortest_path cost
\* results as the single build did.
C12_RebuildIsIdempotent ==
    [][ (/\ builds = 1
         /\ call.op \notin QueryOps
         /\ call'.op = "init"
         /\ robot_map' = robot_map
         /\ (builds' = builds + 1 \/ call'.result = ResPanic))
        => /\ call'.result # ResPanic
           /\ \A from \in QueryCells, to \in QueryCells :
                 /\ shortest_path_cost(graph', indexes', from, to)
                      = shortest_path_cost(graph, indexes, from, to)
                 /\ shortest_path_cost_a_star(graph', indexes', from, to)
                      = shortest_path_cost_a_star(graph, indexes, from, to)
                 /\ { CostResult(r) : r \in shortest_path(graph', indexes', from, to) }
                      = { CostResult(r) : r \in shortest_path(graph, indexes, from, to) }
      ]_vars

\* C13: after every init call, a second one on the same instance included,
\* the coordinate index table has exactly N rows of N entries, N the
\* dimension of the grid of the latest call, and every Some entry refers to a
\* node of the graph that call built.
C13_IndexesFitLatestGrid ==
    builds >= 1
    => /\ Len(indexes) = Dim
       /\ \A i \in 1..Len(indexes) :
             /\ Len(indexes[i]) = Dim
             /\ \A j \in 1..Len(indexes[i]) :
                   IsSome(indexes[i][j]) => Unwrap(indexes[i][j]) \in NodeIds(graph)

\* a and b differ by exactly one unit in exactly one axis
UnitApart(a, b) ==
    \/ a[1] = b[1] /\ (a[2] = b[2] + 1 \/ b[2] = a[2] + 1)
    \/ a[2] = b[2] /\ (a[1] = b[1] + 1 \/ b[1] = a[1] + 1)

\* C14: for every pair of coordinates that differ by exactly one unit in
\* exactly one axis, coordinates_to_direction(from, to) returns Ok with Left
\* when the column decreases, Right when it increases, Up when the row
\* decreases and Down when it increases.
C14_DirectionOfStep ==
    (call.op = "coordinates_to_direction" /\ UnitApart(call.from, call.to))
    => /\ call.to[2] < call.from[2] => call.result = ResOk("Left")
       /\ call.to[2] > call.from[2] => call.result = ResOk("Right")
       /\ call.to[1] < call.from[1] => call.result = ResOk("Up")
       /\ call.to[1] > call.from[1] => call.result = ResOk("Down")

\* C14's case: the call from (0,0) to (1,0) returned Down.
C14_Witness ==
    call = Call("coordinates_to_direction", <<0, 0>>, <<1, 0>>, ResOk("Down"))

\* C15: for every four-directionally adjacent pair (a, b),
\* coordinates_to_direction(a, b) returns Ok(d), and the unit offset of d
\* applied to a yields exactly b.
C15_DirectionRoundTrip ==
    (call.op = "coordinates_to_direction" /\ UnitApart(call.from, call.to))
    => /\ call.result.kind = "Ok"
       /\ move_bot(call.from, call.result.dir) = call.to

\* C15's case: the call from (1,1) to (1,0) returned a direction, Left.
C15_Witness ==
    /\ call.op = "coordinates_to_direction"
    /\ call.from = <<1, 1>> /\ call.to = <<1, 0>>
    /\ call.result.kind = "Ok"
    /\ move_bot(call.from, call.result.dir) = <<1, 0>>

\* C16: coordinates_to_direction(from, to) returns Err(()) and never a
\* direction for every pair that is not four-directionally adjacent:
\* identical coordinates, diagonal pairs, pairs more than one step apart.
C16_NotAdjacentIsErr ==
    (call.op = "coordinates_to_direction" /\ ~UnitApart(call.from, call.to))
    => call.result = ResErr

\* The latest call was eval_weight on two discovered, four-directionally
\* adjacent cells.
WeighedStep ==
    /\ call.op = "eval_weight"
    /\ UnitApart(call.from, call.to)
    /\ IsSome(At(robot_map, call.from)) /\ IsSome(At(robot_map, call.to))

\* The elevation of the discovered cell at c.
ElevationAt(c) == Unwrap(At(robot_map, c)).elevation

\* C17: for every pair of discovered, four-directionally adjacent cells from
\* and to with elevation(to) <= elevation(from), eval_weight(from, to) is
\* non-negative and equals the base cost of from's terrain as the environment
\* adjustment returns it, with no elevation penalty added.
C17_NoPenaltyDownhill ==
    (WeighedStep /\ ElevationAt(call.to) <= ElevationAt(call.from))
    => /\ call.result
            = ResCost(BaseCost(world, Unwrap(At(robot_map, call.from)).tile_type))
       /\ call.result.cost >= 0

\* C17's case: the step down from a Hill at the highest elevation to Sand at
\* elevation 0, where a Hill costs 45 and Sand 40: the weight is 45.
C17_Witness ==
    /\ WeighedStep
    /\ At(robot_map, call.from) = Some(Tile("Hill", MaxElevation))
    /\ At(robot_map, call.to) = Some(Tile("Sand", 0))
    /\ world.Hill = 45
    /\ call.result = ResCost(45)

\* C18: for every pair of discovered, adjacent cells from and to with
\* elevation(to) > elevation(from), eval_weight(from, to) completes and
\* returns the adjusted base cost of from plus the square of
\* elevation(to) - elevation(from).
C18_PenaltyUphill ==
    (WeighedStep /\ ElevationAt(call.to) > ElevationAt(call.from))
    => call.result
         = ResCost(BaseCost(world, Unwrap(At(robot_map, call.from)).tile_type)
                   + (ElevationAt(call.to) - ElevationAt(call.from))
                     * (ElevationAt(call.to) - ElevationAt(call.from)))

\* C19: in every graph init produces, no edge carries the sentinel weight
\* u32::MAX.
C19_NoSentinelEdge ==
    \A k \in 1..Len(graph.edges) : graph.edges[k].weight # U32_MAX

\* C20: after any sequence of tool calls, tool clones and tool drops, the
\* number of tool instances alive at once never exceeds LIMIT = 3; a tool()
\* call that is refused returns Err(3), the count, and was made with the
\* counter at 3, which it leaves there.
C20_AtMostLimitTools ==
    /\ TotalLive <= LIMIT
    /\ (call.op = "tool" /\ call.result.kind = "Err")
         => (call.result = ToolErr(LIMIT) /\ number = LIMIT)


(***************************************************************************)
(* ChartedWorld (charted_world.rs): a copy of the robot's map that the     *)
(* caller can write to.                                                    *)
(***************************************************************************)

\* The tiles the caller writes.
WorldTiles == { Tile("Sand", 0), Tile("Hill", 1) }

\* The dimensions of the worlds the ChartedWorld is initialised in.
WorldDims == { 0, 1, 2 }

\* What robot_map(world) can return in a world of dimension n.
WorldMaps(n) == [1..n -> [1..n -> { None } \cup { Some(t) : t \in WorldTiles }]]

\* The coordinates the caller passes.
WorldCells == (0..MaxCoord) \X (0..MaxCoord)

\* ChartedCoordinate < usize
coordinate_lt(c, n) == c[1] < n /\ c[2] < n

check_bounds(cw, c) == coordinate_lt(c, cw.len)

AtOk(t) == [kind |-> "Ok", tile |-> t]
AtErr(e) == [kind |-> "Err", error |-> e]

at(cw, c) ==
    IF ~ check_bounds(cw, c) THEN AtErr("OutOfBounds")
    ELSE AtOk(At(cw.map, c))

SetOk == [kind |-> "Ok"]
SetErr(e, t) == [kind |-> "Err", error |-> e, tile |-> t]

\* set writing over a tile that is there, as set_overwrite does
set_over(cw, tile, c) ==
    IF ~ check_bounds(cw, c)
    THEN [world |-> cw, result |-> SetErr("OutOfBounds", None)]
    ELSE [world |-> [cw EXCEPT !.map[c[1] + 1][c[2] + 1] = Some(tile)], result |-> SetOk]

\* set(&mut self, tile, coordinate): the ChartedWorld it leaves and what it
\* returns
set(cw, tile, c) ==
    IF ~ check_bounds(cw, c)
    THEN [world |-> cw, result |-> SetErr("OutOfBounds", None)]
    ELSE LET got == at(cw, c)
         IN  IF got.kind = "Ok" /\ got.tile = None
             THEN [world |-> [cw EXCEPT !.map[c[1] + 1][c[2] + 1] = Some(tile)],
                   result |-> SetOk]
             ELSE IF got.kind = "Ok"
             THEN [world |-> cw, result |-> SetErr("OperationNotAllowed", got.tile)]
             ELSE [world |-> cw, result |-> SetErr(got.error, None)]

\* set_overwrite(&mut self, tile, coordinate)
set_overwrite(cw, tile, c) ==
    IF ~ check_bounds(cw, c)
    THEN [world |-> cw, result |-> AtErr("OutOfBounds")]
    ELSE [world |-> [cw EXCEPT !.map[c[1] + 1][c[2] + 1] = Some(tile)], result |-> SetOk]

\* clear(&mut self)
clear(cw) ==
    [cw EXCEPT !.map = [i \in 1..Len(cw.map) |-> [j \in 1..Len(cw.map[i]) |-> None]]]

\* init(&mut self, world), robot_map(world) being map
world_init(cw, map) == [map |-> map, len |-> Len(map)]

\* A call on the ChartedWorld: the tile and the coordinate it was made with,
\* and what it returned.
WorldCall(op, tile, c, result) ==
    [op |-> op, tile |-> tile, coordinate |-> c, result |-> result]

WorldInit ==
    /\ \E n \in WorldDims : \E map \in WorldMaps(n) :
         /\ charted_world' = world_init(charted_world, map)
         /\ call' = WorldCall("world_init", None, <<0, 0>>, SetOk)
    /\ UNCHANGED <<paths, tools, charted_map, saved, charting_bot, discoverable>>

Clear ==
    /\ charted_world' = clear(charted_world)
    /\ call' = WorldCall("clear", None, <<0, 0>>, SetOk)
    /\ UNCHANGED <<paths, tools, charted_map, saved, charting_bot, discoverable>>

Set ==
    /\ \E tile \in WorldTiles : \E c \in WorldCells :
         LET done == set(charted_world, tile, c)
         IN  /\ charted_world' = done.world
             /\ call' = WorldCall("set", Some(tile), c, done.result)
    /\ UNCHANGED <<paths, tools, charted_map, saved, charting_bot, discoverable>>

SetOverwrite ==
    /\ \E tile \in WorldTiles : \E c \in WorldCells :
         LET done == set_overwrite(charted_world, tile, c)
         IN  /\ charted_world' = done.world
             /\ call' = WorldCall("set_overwrite", Some(tile), c, done.result)
    /\ UNCHANGED <<paths, tools, charted_map, saved, charting_bot, discoverable>>

NextWorld == WorldInit \/ Clear \/ Set \/ SetOverwrite

SpecWorld == Init /\ [][NextWorld]_vars

\* The coordinate lies inside the map of the ChartedWorld.
InsideWorld(cw, c) == c[1] < Len(cw.map) /\ c[2] < Len(cw.map)

\* The ChartedWorld with the cell at c holding t.
WithCell(cw, c, t) ==
    [cw EXCEPT !.map = [i \in 1..Len(cw.map) |-> [j \in 1..Len(cw.map[i]) |->
                          IF <<i - 1, j - 1>> = c THEN t ELSE cw.map[i][j]]]]

\* C21: ChartedWorld::set returns Ok exactly when the coordinate is inside the
\* map and the cell holds None, and then the cell holds the tile; on a cell
\* that holds a tile it returns Err((OperationNotAllowed, Some(that tile))),
\* outside the map it returns Err((OutOfBounds, None)), and in both error
\* cases the map stays as it was.
C21_SetFillsOnlyEmptyCells ==
    [][ call'.op = "set" =>
          LET c == call'.coordinate
              inside == InsideWorld(charted_world, c)
              empty == inside /\ At(charted_world.map, c) = None
          IN  /\ (call'.result = SetOk) <=> empty
              /\ empty => charted_world' = WithCell(charted_world, c, call'.tile)
              /\ (inside /\ ~ empty) =>
                    /\ call'.result = SetErr("OperationNotAllowed", At(charted_world.map, c))
                    /\ charted_world' = charted_world
              /\ ~ inside =>
                    /\ call'.result = SetErr("OutOfBounds", None)
                    /\ charted_world' = charted_world ]_vars

\* set was refused on a cell that holds another tile than the one passed.
C21_Witness ==
    /\ call.op = "set"
    /\ call.result.kind = "Err"
    /\ call.result.error = "OperationNotAllowed"
    /\ call.result.tile # call.tile
    /\ At(charted_world.map, call.coordinate) = call.result.tile


(***************************************************************************)
(* ChartingBot (charting_bot.rs): discovers strips of tiles around its     *)
(* position.  robot_map is here the map of the robot, which discover_tiles *)
(* of robotics_lib fills in.                                               *)
(***************************************************************************)

MaxBotDim == 2
MaxLength == 2
MaxWidth == 2
MaxDiscoverable == 2
MaxEnergy == 2

Directions == { "Up", "Down", "Left", "Right" }

\* The tile the world holds at every cell: what a discovery reveals.
WorldTile == Tile("Sand", 0)

\* The robot's maps at the start: nothing discovered, or row 0 discovered.
BotMaps(n) ==
    { [i \in 1..n |-> [j \in 1..n |-> IF known /\ i = 1 THEN Some(WorldTile) ELSE None]] :
        known \in BOOLEAN }

\* a..=b
RangeInclusive(a, b) == IF a > b THEN <<>> ELSE [k \in 1..(b - a + 1) |-> a + k - 1]

\* .rev()
Rev(s) == [k \in 1..Len(s) |-> s[Len(s) + 1 - k]]

\* for y in ys { for x in xs { tiles.push((y, x)) } }
RowsThenCols(ys, xs) ==
    [k \in 1..(Len(ys) * Len(xs)) |->
       <<ys[((k - 1) \div Len(xs)) + 1], xs[((k - 1) % Len(xs)) + 1]>>]

\* for x in xs { for y in ys { tiles.push((y, x)) } }
ColsThenRows(xs, ys) ==
    [k \in 1..(Len(xs) * Len(ys)) |->
       <<ys[((k - 1) % Len(ys)) + 1], xs[((k - 1) \div Len(ys)) + 1]>>]

\* The range across the strip when the bot heads Up: the columns.
across_up(at_, half, world_dim) ==
    IF at_ < half THEN RangeInclusive(0, at_ + half)
    ELSE IF at_ + half > world_dim THEN RangeInclusive(at_ - half, world_dim - 1)
    ELSE RangeInclusive(at_ - half, at_ + half)

\* The range across the strip when the bot heads Down (the columns) or Right
\* (the rows).
across_down(at_, half, world_dim) ==
    IF at_ < half THEN RangeInclusive(0, at_ + half)
    ELSE IF at_ + half >= world_dim THEN RangeInclusive(at_ - half, world_dim - 1)
    ELSE RangeInclusive(at_ - half, at_ + half)

\* The range across the strip when the bot heads Left: the rows.
across_left(at_, half, world_dim) ==
    IF at_ < half THEN RangeInclusive(0, at_ + half)
    ELSE IF at_ + half >= world_dim THEN RangeInclusive(at_ - half, world_dim)
    ELSE RangeInclusive(at_ - half, at_ + half)

\* The range along the strip towards row or column 0 (Up, Left).
along_back(at_, length) ==
    IF at_ - length < 0 THEN RangeInclusive(0, at_)
    ELSE RangeInclusive(at_ - length + 1, at_)

\* The range along the strip away from row or column 0 (Down, Right).  With
\* at_ + length = 0 the subtraction of 1 wraps to usize::MAX, which is not
\* below len.
along_forth(at_, length, len) ==
    IF at_ + length = 0 \/ at_ + length - 1 >= len THEN RangeInclusive(at_, len - 1)
    ELSE RangeInclusive(at_, at_ + length - 1)

\* let to_visit = match direction { .. }: whether the computation wraps below
\* 0, and the tiles of the strip in the order they are visited if it goes on
to_visit(c, map, length, width, direction) ==
    LET world_dim == Len(map[1])
        row == c[1]
        col == c[2]
        half == width \div 2
    IN  IF direction = "Up"
        THEN [wraps |-> FALSE,
              tiles |-> RowsThenCols(Rev(along_back(row, length)),
                                     across_up(col, half, world_dim))]
        ELSE IF direction = "Down"
        THEN [wraps |-> row + length = 0,
              tiles |-> RowsThenCols(along_forth(row, length, world_dim),
                                     across_down(col, half, world_dim))]
        ELSE IF direction = "Right"
        THEN [wraps |-> col + length = 0,
              tiles |-> ColsThenRows(along_forth(col, length, Len(map)),
                                     Rev(across_down(row, half, world_dim)))]
        ELSE [wraps |-> FALSE,
              tiles |-> ColsThenRows(Rev(along_back(col, length)),
                                     Rev(across_left(row, half, world_dim)))]

BotOk(n) == [kind |-> "Ok", count |-> n]
BotErr(e) == [kind |-> "Err", error |-> e]

\* check_discovered(world, coordinate)
check_discovered(map, t) ==
    IF t[1] < Len(map) /\ t[2] < Len(map[1])
    THEN IF At(map, t) # None THEN [kind |-> "Ok", value |-> FALSE]
         ELSE [kind |-> "Ok", value |-> FALSE]
    ELSE BotErr("OutOfBounds")

\* How discover_tiles of robotics_lib behaves where its callers cannot tell:
\* whether a tile the robot already knows is charged to the budget of the
\* world, and which of its two refusals it checks first.
LibBehaviours == [charge_known : BOOLEAN, energy_first : BOOLEAN]

\* The state the loop of discover_line works on: the robot's map, the budget
\* of the world, the tiles the robot's energy still pays for, the counter
\* discovered; and, to state what the loop did, the number of tiles that
\* entered the map (fresh) and the number of discoveries made on tiles that
\* were in the map (again).
Visit(map, budget, energy) ==
    [map |-> map, discoverable |-> budget, energy |-> energy,
     discovered |-> 0, fresh |-> 0, again |-> 0]

\* discover_tiles(robot, world, &[t]), t inside the map
discover_tiles(v, t, lib) ==
    LET known == At(v.map, t) # None
    IN  IF v.energy = 0 /\ (lib.energy_first \/ v.discoverable > 0)
        THEN [result |-> BotErr("NotEnoughEnergy"), visit |-> v]
        ELSE IF v.discoverable = 0
        THEN [result |-> BotErr("NoMoreDiscovery"), visit |-> v]
        ELSE [result |-> [kind |-> "Ok"],
              visit |-> [v EXCEPT !.map[t[1] + 1][t[2] + 1] = Some(WorldTile),
                                  !.energy = @ - 1,
                                  !.discoverable = IF known /\ ~ lib.charge_known
                                                   THEN @ ELSE @ - 1,
                                  !.fresh = IF known THEN @ ELSE @ + 1,
                                  !.again = IF known THEN @ + 1 ELSE @]]

\* for t in to_visit { .. } Ok(discovered), from the k-th tile on
RECURSIVE visit_from(_, _, _, _)
visit_from(k, tiles, v, lib) ==
    IF k > Len(tiles) THEN [result |-> BotOk(v.discovered), visit |-> v]
    ELSE LET checked == check_discovered(v.map, tiles[k])
         IN  IF checked.kind = "Ok"
             THEN LET got == discover_tiles(v, tiles[k], lib)
                  IN  IF got.result.kind = "Ok"
                      THEN visit_from(k + 1, tiles,
                                      [got.visit EXCEPT !.discovered = @ + 1], lib)
                      ELSE [result |-> got.result, visit |-> got.visit]
             ELSE [result |-> checked, visit |-> v]

\* discover_line(&mut self, robot, world, length, width, direction): what
\* the call can do.  Where the strip computation wraps below 0, a build with
\* overflow checks panics and a build without goes on.
discover_line(c, map, budget, energy, length, width, direction, lib) ==
    LET strip == to_visit(c, map, length, width, direction)
        done == visit_from(1, strip.tiles, Visit(map, budget, energy), lib)
    IN  { [result |-> done.result, visit |-> done.visit, tiles |-> strip.tiles] }
        \cup IF strip.wraps
             THEN { [result |-> ResPanic, visit |-> Visit(map, budget, energy),
                     tiles |-> <<>>] }
             ELSE {}

\* A call on the ChartingBot: where the bot stood, what the call was made
\* with, the strip it computed, what the loop did and what it returned.
BotCall(op, c, length, width, direction, done) ==
    [op |-> op, coordinates |-> c, length |-> length, width |-> width,
     direction |-> direction, tiles |-> done.tiles, fresh |-> done.visit.fresh,
     again |-> done.visit.again, result |-> done.result]

\* A ChartingBot just made, in a world of some dimension with some budget.
\* The bot does not read the costs of the world.
InitBot ==
    /\ world = CHOOSE w \in Worlds : w.Sand = 1
    /\ \E n \in 1..MaxBotDim : robot_map \in BotMaps(n)
    /\ graph = EmptyGraph
    /\ indexes = <<>>
    /\ teleports_edges = {}
    /\ builds = 0
    /\ call = Call("new", <<0, 0>>, <<0, 0>>, ResNone)
    /\ number = 0
    /\ live = NoTools
    /\ charted_world = [map |-> <<>>, len |-> 0]
    /\ charted_map = <<>>
    /\ saved = [entries |-> <<>>, keys |-> {}]
    /\ charting_bot = [coordinates |-> <<0, 0>>]
    /\ discoverable \in 0..MaxDiscoverable

\* init(&mut self, robot): the robot stands on some cell of the world
BotInit ==
    /\ Alive
    /\ \E c \in (0..Len(robot_map) - 1) \X (0..Len(robot_map) - 1) :
         /\ charting_bot' = [coordinates |-> c]
         /\ call' = Call("bot_init", c, c, ResNone)
    /\ UNCHANGED <<paths, tools, charted_world, charted_map, saved, discoverable>>

\* discover_line(robot, world, length, width, direction), the robot having
\* the energy for some number of tiles
DiscoverLine ==
    /\ Alive
    /\ \E length \in 0..MaxLength : \E width \in 0..MaxWidth :
       \E direction \in Directions : \E energy \in 0..MaxEnergy :
       \E lib \in LibBehaviours :
       \E done \in discover_line(charting_bot.coordinates, robot_map, discoverable,
                                 energy, length, width, direction, lib) :
             /\ robot_map' = done.visit.map
             /\ discoverable' = done.visit.discoverable
             /\ call' = BotCall("discover_line", charting_bot.coordinates,
                                length, width, direction, done)
    /\ UNCHANGED <<world, graph, indexes, teleports_edges, builds>>
    /\ UNCHANGED <<tools, charted_world, charted_map, saved, charting_bot>>

NextBot == BotInit \/ DiscoverLine

SpecBot == InitBot /\ [][NextBot]_vars

\* C22: discover_line makes no discovery on a tile that is already in the
\* robot's map, and what it returns on success is the number of tiles that
\* entered the map during the call.
C22_CountsNewTilesOnly ==
    call.op = "discover_line" =>
        /\ call.again = 0
        /\ call.result.kind = "Ok" => call.result.count = call.fresh

\* The coordinate lies inside the robot's map.
InGrid(c) == c[1] < Len(robot_map) /\ c[2] < Len(robot_map)

\* C30: with the bot inside the grid and a length of at least 1,
\* discover_line computes a strip of which every coordinate lies inside the
\* grid, whatever the direction and the width: the computation does not
\* panic, and the call does not return OutOfBounds.
C30_StripInsideGrid ==
    (call.op = "discover_line" /\ InGrid(call.coordinates) /\ call.length >= 1) =>
        /\ \A k \in 1..Len(call.tiles) : InGrid(call.tiles[k])
        /\ call.result # BotErr("OutOfBounds")
        /\ call.result # ResPanic

(***************************************************************************)
(* The edges of the graph init leaves.                                     *)
(***************************************************************************)

\* The edges of the graph that the teleport mesh did not add.
AdjacencyEdges == (1..Len(graph.edges)) \ teleports_edges

\* C23: in the graph init produces, every pair of cells with nodes that are
\* horizontally or vertically adjacent is joined by exactly one adjacency
\* edge, and every adjacency edge joins the nodes of two cells of the grid
\* that are four-directionally adjacent and both discovered and walkable.
C23_AdjacencyEdgesOnly ==
    builds = 1
    => /\ \A c \in GridCells, d \in GridCells :
             (Walkable(c) /\ Walkable(d) /\ UnitApart(c, d))
             => Cardinality(EdgesBetween(graph, NodeOf(indexes, c), NodeOf(indexes, d))
                              \cap AdjacencyEdges) = 1
       /\ \A k \in AdjacencyEdges :
             /\ graph.edges[k].a \in NodeIds(graph)
             /\ graph.edges[k].b \in NodeIds(graph)
             /\ LET c == graph.nodes[graph.edges[k].a]
                    d == graph.nodes[graph.edges[k].b]
                IN  /\ InRange(c) /\ InRange(d)
                    /\ Walkable(c) /\ Walkable(d)
                    /\ UnitApart(c, d)

\* C23's case: init returned on the full example grid with (1,4) a teleport.
\* (1,1) is unwalkable and has no node; the adjacent teleports (0,4) and (1,4),
\* in the last column, are joined by two edges of which one is an adjacency
\* edge.
C23_Witness ==
    /\ builds = 1
    /\ robot_map = SetCell(ExampleMap(EXAMPLE_DIM, TRUE), <<1, 4>>, Some(Tile("Teleport", 0)))
    /\ Cardinality(EdgesBetween(graph, NodeOf(indexes, <<0, 4>>), NodeOf(indexes, <<1, 4>>))) = 2
    /\ Cardinality(EdgesBetween(graph, NodeOf(indexes, <<0, 4>>), NodeOf(indexes, <<1, 4>>))
                     \cap AdjacencyEdges) = 1
    /\ ~ HasNode(indexes, <<1, 1>>)
    /\ AdjacencyEdges # {}

\* The discovered teleports of the grid of the latest init.
Teleports == { c \in GridCells : TeleportAt(c) }

\* The teleport mesh is the clique over the discovered teleports: one edge of
\* weight 30 for every unordered pair of distinct teleports, T * (T - 1) / 2
\* in all, each joining the nodes of two distinct teleports.
MeshIsClique ==
    /\ 2 * Cardinality(teleports_edges) = Cardinality(Teleports) * (Cardinality(Teleports) - 1)
    /\ \A k \in teleports_edges :
          /\ k \in 1..Len(graph.edges)
          /\ graph.edges[k].weight = TELEPORT_COST
          /\ graph.edges[k].a # graph.edges[k].b
          /\ graph.edges[k].a \in NodeIds(graph) /\ graph.edges[k].b \in NodeIds(graph)
          /\ graph.nodes[graph.edges[k].a] \in Teleports
          /\ graph.nodes[graph.edges[k].b] \in Teleports
    /\ \A c \in Teleports, d \in Teleports :
          c # d => Cardinality(EdgesBetween(graph, NodeOf(indexes, c), NodeOf(indexes, d))
                                 \cap teleports_edges) = 1

\* C24: for a grid with T discovered teleports, init completes without error
\* and adds exactly T * (T - 1) / 2 teleport edges: one edge of weight 30 for
\* every unordered pair of distinct teleports, none for T = 0 or T = 1, and
\* none from a teleport to itself.
C24_InitAddsTeleportClique ==
    call.op = "init" => (call.result # ResPanic /\ MeshIsClique)

\* Whenever init does return, the mesh it leaves is the clique.
MeshOfCompletedInit == builds = 1 => MeshIsClique

\* C25: the weight an adjacency edge stores is eval_weight of the step in the
\* direction of the scan, from (i, j) to (i, j + 1) or to (i + 1, j); and the
\* cost shortest_path returns is the sum of the stored weights of the edges
\* along the path it returns, whichever way the path crosses them.
C25_ForwardWeightBothWays ==
    builds = 1
    => /\ \A k \in AdjacencyEdges :
             LET c == graph.nodes[graph.edges[k].a]
                 d == graph.nodes[graph.edges[k].b]
             IN  /\ d = <<c[1], c[2] + 1>> \/ d = <<c[1] + 1, c[2]>>
                 /\ graph.edges[k].weight = eval_weight(c, d, robot_map, world, FALSE).weight
       /\ (call.op = "shortest_path" /\ call.result.kind = "Some")
             => call.result.cost = PathWeight(graph, indexes, call.result.path)

\* C25's case: (0,1) is a Hill one level above the Sand at (0,0), and
\* shortest_path from (0,1) to (0,0) crosses the edge between them against the
\* direction of the scan: it returns the weight of the step from (0,0) to
\* (0,1), which is not the weight of the step from (0,1) to (0,0).
C25_Witness ==
    /\ builds = 1
    /\ call.op = "shortest_path"
    /\ call.from = <<0, 1>> /\ call.to = <<0, 0>>
    /\ call.result.kind = "Some"
    /\ call.result.path = << <<0, 1>>, <<0, 0>> >>
    /\ call.result.cost = eval_weight(<<0, 0>>, <<0, 1>>, robot_map, world, FALSE).weight
    /\ call.result.cost # eval_weight(<<0, 1>>, <<0, 0>>, robot_map, world, FALSE).weight

\* C26: after any sequence of init calls on one instance, teleports_edges
\* holds exactly the edges of the current graph that the teleport mesh added:
\* every identifier in it names an edge of the current graph of weight 30
\* between the nodes of two teleports, there is one for every pair of
\* teleports, and none names an adjacency edge.
C26_TeleportEdgesAreCurrent ==
    (builds >= 1 /\ Alive)
    => /\ MeshIsClique
       /\ \A k \in teleports_edges \cap (1..Len(graph.edges)) :
             ~ UnitApart(graph.nodes[graph.edges[k].a], graph.nodes[graph.edges[k].b])
                \/ graph.edges[k].weight = TELEPORT_COST


(***************************************************************************)
(* ChartedMap<Content> (charted_map.rs): the points of interest the robot  *)
(* remembers, a list of (coordinate, quantity) per kind of content.        *)
(***************************************************************************)

MaxSaves == 2
MaxQuantity == 2

\* Content::Rock(q), Content::Bin(a..b), Content::Fire
Rock(q) == [content |-> "Rock", quantity |-> q]
Bin(a, b) == [content |-> "Bin", range |-> <<a, b>>]
Fire == [content |-> "Fire"]

\* The points of interest the caller passes.
Pois == { Rock(1), Rock(MaxQuantity), Bin(0, MaxQuantity), Fire }

\* The coordinates the caller passes.
MapCells == { <<0, 0>>, <<0, 1>> }

\* Content::to_default()
to_default(poi) ==
    IF poi.content = "Rock" THEN Rock(0)
    ELSE IF poi.content = "Bin" THEN Bin(0, 0)
    ELSE poi

QuantityNone == [kind |-> "None"]
ContentQuantity(x) == [kind |-> "ContentQuantity", value |-> x]
ContentRange(r) == [kind |-> "ContentRange", range |-> r]

\* MapKey::get_quantity for Content
get_quantity(poi) ==
    IF poi.content = "Rock" THEN ContentQuantity(poi.quantity)
    ELSE IF poi.content = "Bin" THEN ContentRange(poi.range)
    ELSE QuantityNone

\* Range::len()
range_len(r) == IF r[2] > r[1] THEN r[2] - r[1] ELSE 0

\* get(&self, poi)
get(m, poi) ==
    IF to_default(poi) \in DOMAIN m THEN Some(m[to_default(poi)]) ELSE None

\* save(&mut self, poi, coordinate): the map it leaves
save(m, poi, c) ==
    LET num == get_quantity(poi)
        key == to_default(poi)
    IN  IF get(m, key) = None
        THEN [k \in DOMAIN m \cup {key} |-> IF k = key THEN << <<c, num>> >> ELSE m[k]]
        ELSE [m EXCEPT ![key] = Append(@, <<c, num>>)]

\* The places of the list that hold the coordinate.
PlacesOf(found, c) == { i \in 1..Len(found) : found[i][1] = c }

\* found.remove(i)
remove_at(found, i) ==
    [k \in 1..(Len(found) - 1) |-> IF k < i THEN found[k] ELSE found[k + 1]]

RemoveOk == [kind |-> "Ok"]
RemoveErr(n) == [kind |-> "Err", code |-> n]

\* remove dropping the latest entry with the coordinate
remove_latest(m, poi, c) ==
    LET key == to_default(poi)
    IN  IF get(m, poi) = None THEN [map |-> m, result |-> RemoveErr(1)]
        ELSE IF PlacesOf(m[key], c) = {} THEN [map |-> m, result |-> RemoveErr(2)]
        ELSE LET i == CHOOSE i \in PlacesOf(m[key], c) : \A j \in PlacesOf(m[key], c) : j <= i
             IN  [map |-> [m EXCEPT ![key] = remove_at(@, i)], result |-> RemoveOk]

\* remove(&mut self, poi, coordinate): the map it leaves and what it returns
remove(m, poi, c) ==
    LET key == to_default(poi)
    IN  IF get(m, poi) = None THEN [map |-> m, result |-> RemoveErr(1)]
        ELSE IF PlacesOf(m[key], c) = {} THEN [map |-> m, result |-> RemoveErr(2)]
        ELSE LET i == CHOOSE i \in PlacesOf(m[key], c) : \A j \in PlacesOf(m[key], c) : i <= j
             IN  [map |-> [m EXCEPT ![key] = remove_at(@, i)], result |-> RemoveOk]

\* The loop of get_most from entry k on, holding (coordinate, max).
RECURSIVE get_most_from(_, _, _)
get_most_from(pois, k, best) ==
    IF k > Len(pois) THEN best
    ELSE LET c == pois[k][1]
             s == pois[k][2]
             q == IF s.kind = "ContentQuantity" THEN s.value
                  ELSE IF s.kind = "ContentRange" THEN range_len(s.range)
                  ELSE 0
         IN  IF s.kind # "None" /\ q > best[2]
             THEN get_most_from(pois, k + 1, <<c, q>>)
             ELSE get_most_from(pois, k + 1, best)

\* get_most(&self, poi)
get_most(m, poi) ==
    IF get(m, poi) = None THEN None
    ELSE Some(get_most_from(Unwrap(get(m, poi)), 1, << <<0, 0>>, 0 >>))

\* A call on the ChartedMap and what it returned.
MapCall(op, poi, c, result) == [op |-> op, poi |-> poi, coordinate |-> c, result |-> result]

\* A save as the caller remembers it: the key and the quantity of the point
\* of interest, and the coordinate.
Saved(poi, c) ==
    [key |-> to_default(poi), coordinate |-> c, quantity |-> get_quantity(poi)]

\* The places of the saves that hold a save of the key at the coordinate.
SavedAt(log, key, c) ==
    { i \in 1..Len(log) : log[i].key = key /\ log[i].coordinate = c }

\* The saves without the earliest save of the key at the coordinate, if there
\* is one.
Removed(log, key, c) ==
    IF SavedAt(log, key, c) = {} THEN log
    ELSE LET i == CHOOSE i \in SavedAt(log, key, c) : \A j \in SavedAt(log, key, c) : i <= j
         IN  [k \in 1..(Len(log) - 1) |-> IF k < i THEN log[k] ELSE log[k + 1]]

Save ==
    /\ Len(saved.entries) < MaxSaves
    /\ \E poi \in Pois : \E c \in MapCells :
         /\ charted_map' = save(charted_map, poi, c)
         /\ saved' = [entries |-> Append(saved.entries, Saved(poi, c)),
                      keys |-> saved.keys \cup {to_default(poi)}]
         /\ call' = MapCall("save", poi, c, ResNone)
    /\ UNCHANGED <<paths, tools, charted_world, charting_bot, discoverable>>

Remove ==
    /\ \E poi \in Pois : \E c \in MapCells :
         LET done == remove(charted_map, poi, c)
         IN  /\ charted_map' = done.map
             /\ saved' = [saved EXCEPT !.entries = Removed(@, to_default(poi), c)]
             /\ call' = MapCall("remove", poi, c, done.result)
    /\ UNCHANGED <<paths, tools, charted_world, charting_bot, discoverable>>

Get ==
    /\ \E poi \in Pois :
         call' = MapCall("get", poi, <<0, 0>>, get(charted_map, poi))
    /\ UNCHANGED <<paths, tools, others>>

GetMost ==
    /\ \E poi \in Pois :
         call' = MapCall("get_most", poi, <<0, 0>>, get_most(charted_map, poi))
    /\ UNCHANGED <<paths, tools, others>>

\* clear(&mut self)
ClearMap ==
    /\ charted_map' = <<>>
    /\ saved' = [entries |-> <<>>, keys |-> {}]
    /\ call' = MapCall("clear_map", Fire, <<0, 0>>, ResNone)
    /\ UNCHANGED <<paths, tools, charted_world, charting_bot, discoverable>>

NextMap == Save \/ Remove \/ Get \/ GetMost \/ ClearMap

SpecMap == Init /\ [][NextMap]_vars

\* The saves made under the key and not removed, in save order.
SavesOf(key) == SelectSeq(saved.entries, LAMBDA e : e.key = key)

\* What get is to return for the key: nothing if no save was made under it,
\* else the (coordinate, quantity) of its saves not removed, in save order.
Entries(key) ==
    IF key \notin saved.keys THEN None
    ELSE Some([k \in 1..Len(SavesOf(key)) |->
                 <<SavesOf(key)[k].coordinate, SavesOf(key)[k].quantity>>])

\* C27: after any sequence of saves and removes, get(poi) holds exactly the
\* (coordinate, quantity) entries saved under the default form of poi and not
\* removed since, in save order.  A remove that finds the coordinate returns
\* Ok and takes out the earliest entry with it and nothing else; a remove
\* returns Err(1) when the poi has no entry list and Err(2) when the list does
\* not hold the coordinate, and both leave the map as it was.
C27_MapRefinesSaves ==
    /\ [](\A poi \in Pois : get(charted_map, poi) = Entries(to_default(poi)))
    /\ [][ call'.op = "remove" =>
             LET key == to_default(call'.poi)
                 there == SavedAt(saved.entries, key, call'.coordinate)
             IN  /\ key \notin saved.keys
                    => (call'.result = RemoveErr(1) /\ charted_map' = charted_map)
                 /\ (key \in saved.keys /\ there = {})
                    => (call'.result = RemoveErr(2) /\ charted_map' = charted_map)
                 /\ there # {}
                    => /\ call'.result = RemoveOk
                       /\ \A k \in DOMAIN charted_map \ {key} :
                            charted_map'[k] = charted_map[k] ]_vars

\* remove took the earlier of two saves of Rocks at one coordinate and left
\* the later one.
C27_Witness ==
    /\ call.op = "remove"
    /\ call.result = RemoveOk
    /\ call.poi = Rock(1)
    /\ saved.entries = << Saved(Rock(1), call.coordinate) >>
    /\ get(charted_map, Rock(MaxQuantity))
         = Some(<< <<call.coordinate, ContentQuantity(1)>> >>)

\* How much a saved quantity counts for: the quantity, or the length of the
\* range; nothing where there is none.
Amount(s) ==
    IF s.kind = "ContentQuantity" THEN s.value
    ELSE IF s.kind = "ContentRange" THEN range_len(s.range)
    ELSE 0

\* C28: whenever get_most(poi) returns Some((c, q)), an entry saved under poi
\* and not removed holds the coordinate c, and q is the largest quantity (or
\* range length) among the entries saved under poi.
C28_MostIsASavedEntry ==
    (call.op = "get_most" /\ call.result # None)
    => LET pois == Unwrap(get(charted_map, call.poi))
           c == Unwrap(call.result)[1]
           q == Unwrap(call.result)[2]
       IN  /\ \E k \in 1..Len(pois) : pois[k][1] = c /\ Amount(pois[k][2]) = q
           /\ \A k \in 1..Len(pois) : Amount(pois[k][2]) <= q

\* C29: after any sequence of tool calls, clones and drops, NUMBER is the
\* number of tool instances alive and lies in 0..=LIMIT: a clone that is
\* dropped frees no slot that a live tool holds.
C29_NumberCountsLiveTools ==
    /\ number = TotalLive
    /\ number \in 0..LIMIT

=============================================================================
